---- MODULE Spec2Model ----
(***************************************************************************)
(* Candlr frontend: the useGeneration hook (reducer + async pipelines),    *)
(* the REST client, and the MoldControls / PromptInput / ImageUpload       *)
(* components, as a state machine.                                         *)
(*                                                                         *)
(* Async functions are modelled as tasks: a task sits at an `await` (its   *)
(* pc) while its request is in `inflight`; the arrival of the response and *)
(* the synchronous continuation up to the next await are one action.       *)
(* `state` is the reducer state: every dispatch applies `reducer` at once  *)
(* (React applies queued actions in dispatch order).                       *)
(***************************************************************************)
EXTENDS Integers, Sequences, FiniteSets, TLC

VARIABLES
    state,        \* GenerationState held by useReducer
    inputMode,    \* App's useState<InputMode>
    promptsRef,   \* promptsRef.current
    tasks,        \* running calls of processImage / processPrompt / regenerateMold
    inflight,     \* fetch requests sent and not yet answered
    log,          \* history: per task, the requests it issued and their outcomes
    lastMoldBlob, \* history: blob of the latest successful generate-mold response
    freshReset,   \* history: RESET was dispatched and nothing was submitted since
    settings,     \* MoldControls useState settings
    hasChanges,   \* MoldControls useState hasChanges
    prompt,       \* PromptInput useState prompt (a sequence of characters)
    promptDisabled, \* PromptInput's disabled prop
    submitDisabled, \* rendered disabled attribute of PromptInput's submit button
    lastSubmit,     \* history: the latest form submission and what it passed to onSubmit
    uploadDisabled, \* ImageUpload's disabled prop
    isDragging,     \* ImageUpload useState isDragging
    reads,          \* FileReader reads started by ImageUpload and not finished
    offered,        \* history: files handed to ImageUpload so far
    onImageSelectCalls, \* history: files whose data URL was passed to onImageSelect
    stlBlobProp,      \* DownloadButton's stlBlob prop
    downloadDisabled, \* DownloadButton's disabled prop
    downloadButtonDisabled, \* rendered disabled attribute of the download button
    now,              \* Date.now()
    urlsCreated,      \* number of object URLs created so far
    liveURLs,         \* object URLs created and not revoked
    lastDownload,     \* history: the latest handleDownload call and its effects
    previewBlob,      \* MoldPreview's stlBlob prop
    geometry,         \* MoldPreview useState geometry
    previewError,     \* MoldPreview useState error
    loads,            \* loader.load calls started and not finished
    loadsStarted,     \* number of loader.load calls so far
    currentOutcome    \* history: how the load of the current stlBlob went

vars == <<state, inputMode, promptsRef, tasks, inflight, log, lastMoldBlob, freshReset,
          settings, hasChanges, prompt, promptDisabled, submitDisabled,
          lastSubmit, uploadDisabled, isDragging, reads, offered,
          onImageSelectCalls, stlBlobProp, downloadDisabled,
          downloadButtonDisabled, now, urlsCreated, liveURLs, lastDownload,
          previewBlob, geometry, previewError, loads, loadsStarted,
          currentOutcome>>

appVars == <<state, inputMode, promptsRef, tasks, inflight, log, lastMoldBlob, freshReset,
             settings, hasChanges>>
promptVars == <<prompt, promptDisabled, submitDisabled, lastSubmit>>
uploadVars == <<uploadDisabled, isDragging, reads, offered, onImageSelectCalls>>
downloadVars == <<stlBlobProp, downloadDisabled, downloadButtonDisabled, now,
                  urlsCreated, liveURLs, lastDownload>>
previewVars == <<previewBlob, geometry, previewError, loads, loadsStarted,
                 currentOutcome>>

\* ---------------------------------------------------------------- bounds
MaxTasks == 2
MaxLen == 3
MaxFiles == 2
\* Date.now() runs from 0 to MaxTime
MaxTime == 2
\* calls of handleDownload explored
MaxDownloads == 2
\* loader.load calls explored
MaxLoads == 3

\* ---------------------------------------------------------------- values
Null == "null"

UserImages == {"data:photo"}
UserPrompts == {"a cat"}
ProcessedImages == {"img1", "img2"}
DepthMaps == {"depth1", "depth2"}
Blobs == {"stl1", "stl2"}
ErrorDetails == {Null, "backend detail"}

TaskIds == 1..MaxTasks
MountOwner == 0

\* types/index.ts
DEFAULT_MOLD_SETTINGS ==
    [wallThickness |-> 5, maxWidth |-> 100, maxHeight |-> 100, maxDepth |-> 30]

initialState ==
    [step |-> "input",
     inputType |-> Null,
     originalImage |-> Null,
     processedImage |-> Null,
     depthMap |-> Null,
     stlBlob |-> Null,
     errorMessage |-> Null,
     currentProcessingStep |-> Null,
     currentPromptInfo |-> Null,
     extractionPromptInfo |-> Null,
     depthMapPromptInfo |-> Null]

\* ---------------------------------------------------------------- reducer
ReduceStartImage(s, a) ==
    [s EXCEPT !.step = "processing",
              !.inputType = "image",
              !.originalImage = a.image,
              !.errorMessage = Null,
              !.currentProcessingStep = "Extracting subject...",
              !.currentPromptInfo = a.promptInfo]

ReduceStartPrompt(s, a) ==
    [s EXCEPT !.step = "processing",
              !.inputType = "prompt",
              !.errorMessage = Null,
              !.currentProcessingStep = "Generating image...",
              !.currentPromptInfo = a.promptInfo]

ReduceSetProcessingStep(s, a) ==
    [s EXCEPT !.currentProcessingStep = a.step,
              !.currentPromptInfo = a.promptInfo]

ReduceSetProcessedImage(s, a) ==
    [s EXCEPT !.processedImage = a.image,
              !.extractionPromptInfo = a.promptInfo,
              !.currentPromptInfo = a.promptInfo]

ReduceSetDepthMap(s, a) ==
    [s EXCEPT !.depthMap = a.depthMap,
              !.depthMapPromptInfo = a.promptInfo,
              !.currentPromptInfo = a.promptInfo]

\* variant of SET_STL that forgets to store the blob (sensitivity of C5)
ReduceSetStlKeepBlob(s, a) ==
    [s EXCEPT !.step = "customize",
              !.currentProcessingStep = Null,
              !.currentPromptInfo = Null]

ReduceSetStl(s, a) ==
    [s EXCEPT !.stlBlob = a.blob,
              !.step = "customize",
              !.currentProcessingStep = Null,
              !.currentPromptInfo = Null]

\* variant that also drops the intermediate results (sensitivity of C16)
ReduceSetErrorClearsResults(s, a) ==
    [s EXCEPT !.step = "error",
              !.errorMessage = a.message,
              !.currentProcessingStep = Null,
              !.currentPromptInfo = Null,
              !.processedImage = Null,
              !.depthMap = Null]

ReduceSetError(s, a) ==
    [s EXCEPT !.step = "error",
              !.errorMessage = a.message,
              !.currentProcessingStep = Null,
              !.currentPromptInfo = Null]

reducer(s, a) ==
    CASE a.type = "START_IMAGE_PROCESSING" -> ReduceStartImage(s, a)
      [] a.type = "START_PROMPT_PROCESSING" -> ReduceStartPrompt(s, a)
      [] a.type = "SET_PROCESSING_STEP" -> ReduceSetProcessingStep(s, a)
      [] a.type = "SET_PROCESSED_IMAGE" -> ReduceSetProcessedImage(s, a)
      [] a.type = "SET_DEPTH_MAP" -> ReduceSetDepthMap(s, a)
      [] a.type = "SET_STL" -> ReduceSetStl(s, a)
      [] a.type = "SET_ERROR" -> ReduceSetError(s, a)
      [] a.type = "RESET" -> initialState
      [] OTHER -> s

\* dispatch of several actions in a row, in order
RECURSIVE dispatchAll(_, _)
dispatchAll(s, as) ==
    IF as = <<>> THEN s ELSE dispatchAll(reducer(s, Head(as)), Tail(as))

\* templateToPromptInfo(prompts.<name>): the template fetched from /api/prompts
templateToPromptInfo(name) ==
    CASE name = "extractSubject" -> "template:extractSubject"
      [] name = "generateImage" -> "template:generateImage"
      [] name = "createDepthMap" -> "template:createDepthMap"
      [] name = "generateMold" -> "template:generateMold"

\* promptInfo {prompt_used, model_used} of a successful image response
ResponsePromptInfo(ep) ==
    CASE ep = "extract-subject" -> "response:extract-subject"
      [] ep = "generate-image" -> "response:generate-image"
      [] ep = "create-depth-map" -> "response:create-depth-map"

\* ---------------------------------------------------------------- api/client
\* property access: <<v>> when the object has the key, <<>> (undefined) otherwise
Prop(obj, k) == IF k \in DOMAIN obj THEN <<obj[k]>> ELSE <<>>

\* JSON.stringify of an object literal: keys whose value is undefined are omitted
JSONstringify(obj) ==
    [k \in {x \in DOMAIN obj : Len(obj[x]) > 0} |-> obj[k][1]]

getPromptsRequest(owner) ==
    [owner |-> owner, ep |-> "prompts"]

extractSubjectRequest(owner, imageBase64) ==
    [owner |-> owner, ep |-> "extract-subject",
     body |-> JSONstringify([image |-> <<imageBase64>>])]

generateImageRequest(owner, p) ==
    [owner |-> owner, ep |-> "generate-image",
     body |-> JSONstringify([prompt |-> <<p>>])]

createDepthMapRequest(owner, imageBase64) ==
    [owner |-> owner, ep |-> "create-depth-map",
     body |-> JSONstringify([image |-> <<imageBase64>>])]

generateMoldRequest(owner, depthMapBase64, s) ==
    [owner |-> owner, ep |-> "generate-mold",
     body |-> JSONstringify(
        [depth_map |-> <<depthMapBase64>>,
         wall_thickness |-> Prop(s, "wallThickness"),
         max_width |-> Prop(s, "maxWidth"),
         max_height |-> Prop(s, "maxHeight"),
         max_depth |-> Prop(s, "maxDepth"),
         include_registration_marks |-> Prop(s, "includeRegistrationMarks"),
         include_pouring_channel |-> Prop(s, "includePouringChannel")])]

\* the ways a fetch can fail: the promise rejects (network), or the response is
\* not ok and its JSON body has a detail or none
Failures ==
    {[kind |-> "network", detail |-> Null]} \cup
    {[kind |-> "http", detail |-> d] : d \in ErrorDetails}

DefaultMessage(ep) ==
    CASE ep = "prompts" -> "Failed to fetch prompts"
      [] ep = "extract-subject" -> "Failed to extract subject"
      [] ep = "generate-image" -> "Failed to generate image"
      [] ep = "create-depth-map" -> "Failed to create depth map"
      [] ep = "generate-mold" -> "Failed to generate mold"

\* the value an api function throws: an Error in each case
Thrown(ep, f) ==
    IF f.kind = "network"
    THEN [isError |-> TRUE, message |-> "Failed to fetch"]
    ELSE IF ep = "prompts"
         THEN [isError |-> TRUE, message |-> DefaultMessage(ep)]
         ELSE [isError |-> TRUE,
               message |-> IF f.detail # Null THEN f.detail ELSE DefaultMessage(ep)]

\* catch (error) { message: error instanceof Error ? error.message : ... }
CatchMessage(thrown) ==
    IF thrown.isError THEN thrown.message ELSE "An error occurred"

\* ---------------------------------------------------------------- tasks
Idle == [kind |-> "idle", pc |-> "idle", input |-> Null]

\* a new call takes the lowest free slot
FreeSlots ==
    LET free == {t \in TaskIds : tasks[t].kind = "idle"}
    IN {t \in free : \A u \in free : t <= u}

Pending(req) == [req |-> req, status |-> "pending", value |-> Null]

\* the last entry of a task's history gets its outcome
Mark(l, status, value) ==
    IF l = <<>> THEN l
    ELSE [l EXCEPT ![Len(l)] = [@ EXCEPT !.status = status, !.value = value]]

RECURSIVE PendingAll(_)
PendingAll(reqs) ==
    IF reqs = {} THEN <<>>
    ELSE LET r == CHOOSE x \in reqs : TRUE
         IN <<Pending(r)>> \o PendingAll(reqs \ {r})

\* MoldControls is mounted exactly while step = 'customize'; a fresh mount starts
\* from useState(DEFAULT_MOLD_SETTINGS) / useState(false)
MoldControlsAfter(s2) ==
    IF state.step = "customize" /\ s2.step = "customize"
    THEN UNCHANGED <<settings, hasChanges>>
    ELSE settings' = DEFAULT_MOLD_SETTINGS /\ hasChanges' = FALSE

\* a task starts in slot t: new state, the requests it sends, where it waits
Start(t, s2, reqs, task2) ==
    /\ state' = s2
    /\ inflight' = inflight \cup reqs
    /\ tasks' = [tasks EXCEPT ![t] = task2]
    /\ log' = [log EXCEPT ![t] = PendingAll(reqs)]
    /\ MoldControlsAfter(s2)

\* the response to r reaches task t, which runs on to its next await (or ends)
Settle(t, r, status, value, s2, reqs, task2) ==
    /\ state' = s2
    /\ inflight' = (inflight \ {r}) \cup reqs
    /\ tasks' = [tasks EXCEPT ![t] = task2]
    /\ log' = [log EXCEPT ![t] =
                 IF task2.kind = "idle" THEN <<>>
                 ELSE Mark(@, status, value) \o PendingAll(reqs)]
    /\ MoldControlsAfter(s2)

Awaited(t, ep) == {r \in inflight : r.owner = t /\ r.ep = ep}

\* ---------------------------------------------------------------- useGeneration
\* processImage, from START_IMAGE_PROCESSING to the first await in the try block
ImageStartState(s, img) ==
    reducer(s, [type |-> "START_IMAGE_PROCESSING", image |-> img,
                promptInfo |-> templateToPromptInfo("extractSubject")])

\* variant that does not wait for extract-subject (sensitivity of C3)
ImageStartRequestsEager(t, img) ==
    {extractSubjectRequest(t, img), createDepthMapRequest(t, img)}

ImageStartRequests(t, img) ==
    {extractSubjectRequest(t, img)}

\* processPrompt, from START_PROMPT_PROCESSING to the first await in the try block
PromptStartState(s, p) ==
    reducer(s, [type |-> "START_PROMPT_PROCESSING", userPrompt |-> p,
                promptInfo |-> templateToPromptInfo("generateImage")])

PromptStartRequests(t, p) ==
    {generateImageRequest(t, p)}

\* variant that leaves out the SET_PROCESSING_STEP dispatch (sensitivity of C13)
AfterImageStateNoStep(s, ep, img) ==
    dispatchAll(s,
        <<[type |-> "SET_PROCESSED_IMAGE", image |-> img,
           promptInfo |-> ResponsePromptInfo(ep)]>>)

\* after the image result: SET_PROCESSED_IMAGE, SET_PROCESSING_STEP
AfterImageState(s, ep, img) ==
    dispatchAll(s,
        <<[type |-> "SET_PROCESSED_IMAGE", image |-> img,
           promptInfo |-> ResponsePromptInfo(ep)],
          [type |-> "SET_PROCESSING_STEP", step |-> "Creating depth map...",
           promptInfo |-> templateToPromptInfo("createDepthMap")]>>)

\* after the depth result: SET_DEPTH_MAP, SET_PROCESSING_STEP
AfterDepthState(s, d) ==
    dispatchAll(s,
        <<[type |-> "SET_DEPTH_MAP", depthMap |-> d,
           promptInfo |-> ResponsePromptInfo("create-depth-map")],
          [type |-> "SET_PROCESSING_STEP", step |-> "Generating 3D mold...",
           promptInfo |-> templateToPromptInfo("generateMold")]>>)

\* the create-depth-map call of processImage: createDepthMap(extractResult.image);
\* s is the state the callback's closure could read instead
\* variant that sends the uploaded image instead (sensitivity of C1)
ImageDepthRequestFromState(t, resultImage, s) ==
    createDepthMapRequest(t, s.originalImage)

ImageDepthRequest(t, resultImage, s) ==
    createDepthMapRequest(t, resultImage)

\* the create-depth-map call of processPrompt: createDepthMap(generateResult.image)
\* variant that reads the image from the closure's state (sensitivity of C2)
PromptDepthRequestFromState(t, resultImage, s) ==
    createDepthMapRequest(t, s.processedImage)

PromptDepthRequest(t, resultImage, s) ==
    createDepthMapRequest(t, resultImage)

\* the generate-mold call of both pipelines
PipelineMoldRequest(t, resultDepth) ==
    generateMoldRequest(t, resultDepth, DEFAULT_MOLD_SETTINGS)

\* processImage up to its first pending await, called with the image's data URL
processImage(t, img) ==
    IF promptsRef = Null
    THEN Start(t, state, {getPromptsRequest(t)},
               [kind |-> "image", pc |-> "prompts", input |-> img])
    ELSE Start(t, ImageStartState(state, img), ImageStartRequests(t, img),
               [kind |-> "image", pc |-> "extract", input |-> img])

\* processPrompt up to its first pending await
processPrompt(t, p) ==
    IF promptsRef = Null
    THEN Start(t, state, {getPromptsRequest(t)},
               [kind |-> "prompt", pc |-> "prompts", input |-> p])
    ELSE Start(t, PromptStartState(state, p), PromptStartRequests(t, p),
               [kind |-> "prompt", pc |-> "generate", input |-> p])

\* regenerateMold(settings) as MoldControls calls it. The callback is rebuilt when
\* state.depthMap changes and the debounce effect is re-armed with it, so the
\* closure reads the depth map of the latest render, taken here to be `state`.
regenerateMoldRequests(t, s, newSettings) ==
    IF s.depthMap = Null THEN {}
    ELSE {generateMoldRequest(t, s.depthMap, newSettings)}

\* ---------------------------------------------------------------- actions: mount
\* useEffect(() => api.getPrompts().then(...), []) : the fetch succeeds
MountPromptsLoaded ==
    /\ \E r \in Awaited(MountOwner, "prompts") : inflight' = inflight \ {r}
    /\ promptsRef' = "templates"
    /\ UNCHANGED <<state, inputMode, tasks, log, lastMoldBlob, settings, hasChanges>>
    /\ UNCHANGED <<promptVars, uploadVars, downloadVars, previewVars, freshReset>>

\* the mount fetch fails: the rejection is not handled, promptsRef stays null
MountPromptsFailed ==
    /\ \E r \in Awaited(MountOwner, "prompts") : inflight' = inflight \ {r}
    /\ UNCHANGED <<state, inputMode, promptsRef, tasks, log, lastMoldBlob,
                   settings, hasChanges>>
    /\ UNCHANGED <<promptVars, uploadVars, downloadVars, previewVars, freshReset>>

\* ---------------------------------------------------------------- actions: user
\* App: the 'Upload Image' / 'Describe It' buttons, rendered while step = 'input'
SetInputMode(m) ==
    /\ state.step = "input"
    /\ inputMode' = m
    /\ UNCHANGED <<state, promptsRef, tasks, inflight, log, lastMoldBlob,
                   settings, hasChanges>>
    /\ UNCHANGED <<promptVars, uploadVars, downloadVars, previewVars, freshReset>>

\* App's ImageUpload gets an image file: handleFile starts a FileReader
SelectImage(t, img) ==
    /\ state.step = "input"
    /\ inputMode = "image"
    /\ t \in FreeSlots
    /\ tasks' = [tasks EXCEPT ![t] = [kind |-> "image", pc |-> "read", input |-> img]]
    /\ UNCHANGED <<state, inputMode, promptsRef, inflight, log, lastMoldBlob,
                   settings, hasChanges>>
    /\ freshReset' = FALSE
    /\ UNCHANGED <<promptVars, uploadVars, downloadVars, previewVars>>

\* reader.onload: onImageSelect(base64) -> handleImageSelect -> processImage
ReaderLoaded(t) ==
    /\ tasks[t].pc = "read"
    /\ processImage(t, tasks[t].input)
    /\ UNCHANGED <<inputMode, promptsRef, lastMoldBlob>>
    /\ UNCHANGED <<promptVars, uploadVars, downloadVars, previewVars, freshReset>>

\* the read fails: no onerror handler, nothing is called
ReaderFailed(t) ==
    /\ tasks[t].pc = "read"
    /\ tasks' = [tasks EXCEPT ![t] = Idle]
    /\ UNCHANGED <<state, inputMode, promptsRef, inflight, log, lastMoldBlob,
                   settings, hasChanges>>
    /\ UNCHANGED <<promptVars, uploadVars, downloadVars, previewVars, freshReset>>

\* App's PromptInput submits a non-blank prompt: handlePromptSubmit -> processPrompt
SubmitPrompt(t, p) ==
    /\ state.step = "input"
    /\ inputMode = "prompt"
    /\ t \in FreeSlots
    /\ processPrompt(t, p)
    /\ UNCHANGED <<inputMode, promptsRef, lastMoldBlob>>
    /\ freshReset' = FALSE
    /\ UNCHANGED <<promptVars, uploadVars, downloadVars, previewVars>>

\* 'Start Over' (customize) and 'Try Again' (error): reset -> dispatch RESET
Reset ==
    /\ state.step \in {"customize", "error"}
    /\ state' = reducer(state, [type |-> "RESET"])
    /\ MoldControlsAfter(state')
    /\ UNCHANGED <<inputMode, promptsRef, tasks, inflight, log, lastMoldBlob>>
    /\ freshReset' = TRUE
    /\ UNCHANGED <<promptVars, uploadVars, downloadVars, previewVars>>

\* ---------------------------------------------------------------- actions: MoldControls
\* the (key, value) pairs the sliders and the wick toggle can pass to updateSetting
SettingChoices ==
    {<<"wallThickness", 10>>, <<"wickEnabled", TRUE>>}

SetKey(obj, k, v) ==
    [x \in DOMAIN obj \cup {k} |-> IF x = k THEN v ELSE obj[x]]

\* updateSetting(key, value)
updateSetting(k, v) ==
    /\ state.step = "customize"
    /\ settings' = SetKey(settings, k, v)
    /\ hasChanges' = TRUE
    /\ UNCHANGED <<state, inputMode, promptsRef, tasks, inflight, log, lastMoldBlob>>
    /\ UNCHANGED <<promptVars, uploadVars, downloadVars, previewVars, freshReset>>

\* the 500 ms timer fires with hasChanges: applyChanges -> regenerateMold(settings)
applyChanges(t) ==
    /\ state.step = "customize"
    /\ hasChanges
    /\ LET reqs == regenerateMoldRequests(t, state, settings)
       IN IF reqs = {}
          THEN UNCHANGED <<inflight, log, tasks>>
          ELSE /\ t \in FreeSlots
               /\ inflight' = inflight \cup reqs
               /\ log' = [log EXCEPT ![t] = PendingAll(reqs)]
               /\ tasks' = [tasks EXCEPT ![t] =
                              [kind |-> "regen", pc |-> "mold", input |-> Null]]
    /\ hasChanges' = FALSE
    /\ UNCHANGED <<state, inputMode, promptsRef, lastMoldBlob, settings>>
    /\ UNCHANGED <<promptVars, uploadVars, downloadVars, previewVars, freshReset>>

\* ---------------------------------------------------------------- actions: responses
\* `await api.getPrompts()` inside processImage / processPrompt resolves
TaskPromptsLoaded(t) ==
    /\ tasks[t].pc = "prompts"
    /\ \E r \in Awaited(t, "prompts") :
         IF tasks[t].kind = "image"
         THEN Settle(t, r, "ok", "templates",
                     ImageStartState(state, tasks[t].input),
                     ImageStartRequests(t, tasks[t].input),
                     [tasks[t] EXCEPT !.pc = "extract"])
         ELSE Settle(t, r, "ok", "templates",
                     PromptStartState(state, tasks[t].input),
                     PromptStartRequests(t, tasks[t].input),
                     [tasks[t] EXCEPT !.pc = "generate"])
    /\ promptsRef' = "templates"
    /\ UNCHANGED <<inputMode, lastMoldBlob>>
    /\ UNCHANGED <<promptVars, uploadVars, downloadVars, previewVars, freshReset>>

\* it rejects: the await is outside the try block, the call ends with no dispatch
TaskPromptsFailed(t) ==
    /\ tasks[t].pc = "prompts"
    /\ \E r \in Awaited(t, "prompts") :
         Settle(t, r, "fail", Null, state, {}, Idle)
    /\ UNCHANGED <<inputMode, promptsRef, lastMoldBlob>>
    /\ UNCHANGED <<promptVars, uploadVars, downloadVars, previewVars, freshReset>>

\* processImage: `await api.extractSubject(imageBase64)` resolves
ExtractResolved(t, img) ==
    /\ tasks[t].kind = "image" /\ tasks[t].pc = "extract"
    /\ \E r \in Awaited(t, "extract-subject") :
         LET s2 == AfterImageState(state, "extract-subject", img)
         IN Settle(t, r, "ok", img, s2, {ImageDepthRequest(t, img, state)},
                   [tasks[t] EXCEPT !.pc = "depth"])
    /\ UNCHANGED <<inputMode, promptsRef, lastMoldBlob>>
    /\ UNCHANGED <<promptVars, uploadVars, downloadVars, previewVars, freshReset>>

\* processPrompt: `await api.generateImage(prompt)` resolves
GenerateResolved(t, img) ==
    /\ tasks[t].kind = "prompt" /\ tasks[t].pc = "generate"
    /\ \E r \in Awaited(t, "generate-image") :
         LET s2 == AfterImageState(state, "generate-image", img)
         IN Settle(t, r, "ok", img, s2, {PromptDepthRequest(t, img, state)},
                   [tasks[t] EXCEPT !.pc = "depth"])
    /\ UNCHANGED <<inputMode, promptsRef, lastMoldBlob>>
    /\ UNCHANGED <<promptVars, uploadVars, downloadVars, previewVars, freshReset>>

\* processImage / processPrompt: `await api.createDepthMap(...)` resolves
DepthResolved(t, d) ==
    /\ tasks[t].kind \in {"image", "prompt"} /\ tasks[t].pc = "depth"
    /\ \E r \in Awaited(t, "create-depth-map") :
         Settle(t, r, "ok", d, AfterDepthState(state, d),
                {PipelineMoldRequest(t, d)}, [tasks[t] EXCEPT !.pc = "mold"])
    /\ UNCHANGED <<inputMode, promptsRef, lastMoldBlob>>
    /\ UNCHANGED <<promptVars, uploadVars, downloadVars, previewVars, freshReset>>

\* processImage / processPrompt / regenerateMold: `await api.generateMold(...)`
\* resolves, SET_STL is dispatched and the call returns
MoldResolved(t, blob) ==
    /\ tasks[t].pc = "mold"
    /\ \E r \in Awaited(t, "generate-mold") :
         Settle(t, r, "ok", blob,
                reducer(state, [type |-> "SET_STL", blob |-> blob]), {}, Idle)
    /\ lastMoldBlob' = blob
    /\ UNCHANGED <<inputMode, promptsRef>>
    /\ UNCHANGED <<promptVars, uploadVars, downloadVars, previewVars, freshReset>>

\* a request made inside a try block fails: catch -> SET_ERROR, the call returns
RequestFailed(t, f) ==
    /\ tasks[t].pc \in {"extract", "generate", "depth", "mold"}
    /\ \E r \in {x \in inflight : x.owner = t} :
         Settle(t, r, "fail", Null,
                reducer(state, [type |-> "SET_ERROR",
                                message |-> CatchMessage(Thrown(r.ep, f))]),
                {}, Idle)
    /\ UNCHANGED <<inputMode, promptsRef, lastMoldBlob>>
    /\ UNCHANGED <<promptVars, uploadVars, downloadVars, previewVars, freshReset>>

\* ---------------------------------------------------------------- PromptInput
Whitespace == {" ", "\n"}
Chars == {"a"} \cup Whitespace

RECURSIVE SeqsUpTo(_)
SeqsUpTo(n) ==
    IF n = 0 THEN {<<>>}
    ELSE LET shorter == SeqsUpTo(n - 1)
         IN shorter \cup {Append(x, c) : x \in {y \in shorter : Len(y) = n - 1}, c \in Chars}

Texts == SeqsUpTo(MaxLen)

RECURSIVE trimStart(_)
trimStart(str) ==
    IF str = <<>> THEN str
    ELSE IF Head(str) \in Whitespace THEN trimStart(Tail(str)) ELSE str

RECURSIVE trimEnd(_)
trimEnd(str) ==
    IF str = <<>> THEN str
    ELSE IF str[Len(str)] \in Whitespace
         THEN trimEnd(SubSeq(str, 1, Len(str) - 1)) ELSE str

\* String.prototype.trim
trim(str) == trimEnd(trimStart(str))

\* a string is truthy when it is not empty
Truthy(str) == str # <<>>

\* the guard of handleSubmit: prompt.trim() && !disabled
\* variant without trim (sensitivity of C8)
SubmitGuardNoTrim(text, disabled) == Truthy(text) /\ ~disabled

SubmitGuard(text, disabled) == Truthy(trim(text)) /\ ~disabled

\* the argument of onSubmit: prompt.trim()
SubmitArgument(text) == trim(text)

\* the submit button's attribute: disabled={!prompt.trim() || disabled}
\* variant without trim (sensitivity of C9)
ButtonDisabledNoTrim(text, disabled) == ~Truthy(text) \/ disabled

ButtonDisabled(text, disabled) == ~Truthy(trim(text)) \/ disabled

NoSubmit == [made |-> FALSE, text |-> <<>>, disabled |-> FALSE,
             called |-> FALSE, arg |-> <<>>]

\* textarea onChange: setPrompt(e.target.value), then the render
setPrompt(value) ==
    /\ ~promptDisabled
    /\ prompt' = value
    /\ submitDisabled' = ButtonDisabled(prompt', promptDisabled)
    /\ UNCHANGED <<promptDisabled, lastSubmit>>
    /\ UNCHANGED <<appVars, uploadVars, downloadVars, previewVars>>

\* the parent renders PromptInput with another disabled prop
SetPromptDisabled(b) ==
    /\ promptDisabled' = b
    /\ submitDisabled' = ButtonDisabled(prompt, promptDisabled')
    /\ UNCHANGED <<prompt, lastSubmit>>
    /\ UNCHANGED <<appVars, uploadVars, downloadVars, previewVars>>

\* the form's submit event (button click, or a submit dispatched on the form)
handleSubmit ==
    /\ lastSubmit' =
         IF SubmitGuard(prompt, promptDisabled)
         THEN [made |-> TRUE, text |-> prompt, disabled |-> promptDisabled,
               called |-> TRUE, arg |-> SubmitArgument(prompt)]
         ELSE [made |-> TRUE, text |-> prompt, disabled |-> promptDisabled,
               called |-> FALSE, arg |-> <<>>]
    /\ UNCHANGED <<prompt, promptDisabled, submitDisabled>>
    /\ UNCHANGED <<appVars, uploadVars, downloadVars, previewVars>>

NextPrompt ==
    \/ \E value \in Texts : setPrompt(value)
    \/ \E b \in BOOLEAN : SetPromptDisabled(b)
    \/ handleSubmit

\* ---------------------------------------------------------------- ImageUpload
ImagePrefix == <<"i", "m", "a", "g", "e", "/">>

\* File.type values: image/png, text/plain, '' (unknown), image, x/image/p
FileTypes ==
    {<<"i", "m", "a", "g", "e", "/", "p", "n", "g">>,
     <<"t", "e", "x", "t", "/", "p", "l", "a", "i", "n">>,
     <<>>,
     <<"i", "m", "a", "g", "e">>,
     <<"x", "/", "i", "m", "a", "g", "e", "/", "p">>}

\* String.prototype.startsWith
RECURSIVE startsWith(_, _)
startsWith(str, prefix) ==
    IF prefix = <<>> THEN TRUE
    ELSE /\ str # <<>>
         /\ Head(str) = Head(prefix)
         /\ startsWith(Tail(str), Tail(prefix))

\* String.prototype.includes
includes(str, part) ==
    \E i \in 1..(Len(str) + 1) : startsWith(SubSeq(str, i, Len(str)), part)

\* handleFile's test: file.type.startsWith('image/')
\* variant with includes instead of startsWith (sensitivity of C10)
AcceptsFileIncludes(type) == includes(type, ImagePrefix)

AcceptsFile(type) == startsWith(type, ImagePrefix)

\* handleFile(file): a non-image returns at once, an image starts a FileReader
handleFile(file) ==
    /\ offered' = offered \cup {file}
    /\ reads' = IF AcceptsFile(file.type) THEN reads \cup {file} ELSE reads

\* the next file the user hands over; whileDisabled records the disabled prop at
\* that moment
NewFiles ==
    {[id |-> Cardinality(offered) + 1, type |-> ty, whileDisabled |-> uploadDisabled] :
        ty \in FileTypes}

\* <input type="file" onChange>: the browser ignores a disabled input
handleInputChange(file) ==
    /\ ~uploadDisabled
    /\ Cardinality(offered) < MaxFiles
    /\ handleFile(file)
    /\ UNCHANGED <<uploadDisabled, isDragging, onImageSelectCalls>>
    /\ UNCHANGED <<appVars, promptVars, downloadVars, previewVars>>

\* onDrop with a file in dataTransfer.files
handleDrop(file) ==
    /\ Cardinality(offered) < MaxFiles
    /\ isDragging' = FALSE
    /\ handleFile(file)
    /\ UNCHANGED <<uploadDisabled, onImageSelectCalls>>
    /\ UNCHANGED <<appVars, promptVars, downloadVars, previewVars>>

\* onDrop with no file (text or a link is dropped)
handleDropNoFile ==
    /\ isDragging
    /\ isDragging' = FALSE
    /\ UNCHANGED <<uploadDisabled, reads, offered, onImageSelectCalls>>
    /\ UNCHANGED <<appVars, promptVars, downloadVars, previewVars>>

handleDragOver ==
    /\ isDragging' = TRUE
    /\ UNCHANGED <<uploadDisabled, reads, offered, onImageSelectCalls>>
    /\ UNCHANGED <<appVars, promptVars, downloadVars, previewVars>>

handleDragLeave ==
    /\ isDragging' = FALSE
    /\ UNCHANGED <<uploadDisabled, reads, offered, onImageSelectCalls>>
    /\ UNCHANGED <<appVars, promptVars, downloadVars, previewVars>>

\* reader.onload: onImageSelect(base64)
readerOnload(file) ==
    /\ file \in reads
    /\ reads' = reads \ {file}
    /\ onImageSelectCalls' = onImageSelectCalls \cup {file}
    /\ UNCHANGED <<uploadDisabled, isDragging, offered>>
    /\ UNCHANGED <<appVars, promptVars, downloadVars, previewVars>>

\* the read fails: there is no onerror handler
readerError(file) ==
    /\ file \in reads
    /\ reads' = reads \ {file}
    /\ UNCHANGED <<uploadDisabled, isDragging, offered, onImageSelectCalls>>
    /\ UNCHANGED <<appVars, promptVars, downloadVars, previewVars>>

\* the parent renders ImageUpload with another disabled prop
SetUploadDisabled(b) ==
    /\ uploadDisabled' = b
    /\ UNCHANGED <<isDragging, reads, offered, onImageSelectCalls>>
    /\ UNCHANGED <<appVars, promptVars, downloadVars, previewVars>>

NextUpload ==
    \/ \E file \in NewFiles : handleInputChange(file)
    \/ \E file \in NewFiles : handleDrop(file)
    \/ handleDropNoFile
    \/ handleDragOver
    \/ handleDragLeave
    \/ \E file \in reads : readerOnload(file)
    \/ \E file \in reads : readerError(file)
    \/ \E b \in BOOLEAN : SetUploadDisabled(b)

\* ---------------------------------------------------------------- specification
\* ------------------------------------------------------- DownloadButton
\* `candle_mold_${Date.now()}.stl`
fileName(ts) == "candle_mold_" \o ToString(ts) \o ".stl"

\* disabled={!stlBlob || disabled}
DownloadButtonDisabled(blob, disabled) == (blob = Null) \/ disabled

\* handleDownload without the final URL.revokeObjectURL(url)
handleDownloadNoRevoke(blob, ts, n) ==
    IF blob = Null THEN <<>>
    ELSE LET url == [blob |-> blob, id |-> n + 1]
         IN  << [op |-> "createObjectURL", blob |-> blob, url |-> url],
                [op |-> "appendChild"],
                [op |-> "click", href |-> url, download |-> fileName(ts)],
                [op |-> "removeChild"] >>

\* the effects of one call of handleDownload, in order; n object URLs exist
\* before the call, so the URL it creates is a fresh one
handleDownload(blob, ts, n) ==
    IF blob = Null THEN <<>>
    ELSE LET url == [blob |-> blob, id |-> n + 1]
         IN  << [op |-> "createObjectURL", blob |-> blob, url |-> url],
                [op |-> "appendChild"],
                [op |-> "click", href |-> url, download |-> fileName(ts)],
                [op |-> "removeChild"],
                [op |-> "revokeObjectURL", url |-> url] >>

OfOp(effects, op) == SelectSeq(effects, LAMBDA e : e.op = op)

RECURSIVE LiveAfter(_, _)
\* the object-URL store after the effects
LiveAfter(effects, live) ==
    IF effects = <<>> THEN live
    ELSE LET e == Head(effects)
         IN  LiveAfter(Tail(effects),
                 IF e.op = "createObjectURL" THEN live \cup {e.url}
                 ELSE IF e.op = "revokeObjectURL" THEN live \ {e.url}
                 ELSE live)

NoDownload == [called |-> FALSE, blob |-> Null, at |-> 0, effects |-> <<>>]

\* the parent renders DownloadButton with a (new) stlBlob prop
SetStlBlobProp(b) ==
    /\ b # stlBlobProp
    /\ stlBlobProp' = b
    /\ downloadButtonDisabled' = DownloadButtonDisabled(b, downloadDisabled)
    /\ UNCHANGED <<downloadDisabled, now, urlsCreated, liveURLs, lastDownload>>
    /\ UNCHANGED <<appVars, promptVars, uploadVars, previewVars>>

\* the parent renders DownloadButton with a (new) disabled prop
SetDownloadDisabled(b) ==
    /\ b # downloadDisabled
    /\ downloadDisabled' = b
    /\ downloadButtonDisabled' = DownloadButtonDisabled(stlBlobProp, b)
    /\ UNCHANGED <<stlBlobProp, now, urlsCreated, liveURLs, lastDownload>>
    /\ UNCHANGED <<appVars, promptVars, uploadVars, previewVars>>

\* time passes
Tick ==
    /\ now < MaxTime
    /\ now' = now + 1
    /\ UNCHANGED <<stlBlobProp, downloadDisabled, downloadButtonDisabled,
                   urlsCreated, liveURLs, lastDownload>>
    /\ UNCHANGED <<appVars, promptVars, uploadVars, previewVars>>

\* one call of handleDownload under the current props, start to return
Download ==
    /\ urlsCreated < MaxDownloads
    /\ LET effects == handleDownload(stlBlobProp, now, urlsCreated)
       IN  /\ lastDownload' = [called |-> TRUE, blob |-> stlBlobProp, at |-> now,
                               effects |-> effects]
           /\ liveURLs' = LiveAfter(effects, liveURLs)
           /\ urlsCreated' = urlsCreated + Len(OfOp(effects, "createObjectURL"))
    /\ UNCHANGED <<stlBlobProp, downloadDisabled, downloadButtonDisabled, now>>
    /\ UNCHANGED <<appVars, promptVars, uploadVars, previewVars>>

NextDownload ==
    \/ \E b \in Blobs \cup {Null} : SetStlBlobProp(b)
    \/ \E b \in BOOLEAN : SetDownloadDisabled(b)
    \/ Tick
    \/ Download

\* ---------------------------------------------------------- MoldPreview
\* the BufferGeometry STLLoader parses from a blob (centred and scaled)
Geometry(blob) == "geometry:" \o blob

\* the useEffect body for a new stlBlob prop: the state it sets at once
EffectGeometry(blob, g) == IF blob = Null THEN Null ELSE g

\* what the component renders: the error text, the placeholder, or the canvas
\* showing `geometry`
Rendered ==
    IF previewError # Null THEN previewError
    ELSE IF geometry = Null THEN "No model loaded"
    ELSE geometry

\* the load started for the current stlBlob, if it is still running
IsCurrentLoad(l) == previewBlob # Null /\ l.id = loadsStarted

\* the parent passes a new stlBlob: the effect runs again (its cleanup only
\* revokes the old URL; the old load keeps running)
SetPreviewBlob(b) ==
    /\ b # previewBlob
    /\ previewBlob' = b
    /\ geometry' = EffectGeometry(b, geometry)
    /\ IF b = Null
       THEN /\ currentOutcome' = "none"
            /\ UNCHANGED <<loads, loadsStarted>>
       ELSE /\ loadsStarted < MaxLoads
            /\ loadsStarted' = loadsStarted + 1
            /\ loads' = loads \cup {[id |-> loadsStarted + 1, blob |-> b]}
            /\ currentOutcome' = "pending"
    /\ UNCHANGED previewError
    /\ UNCHANGED <<appVars, promptVars, uploadVars, downloadVars>>

\* loader.load onLoad: setGeometry(loadedGeometry); setError(null)
LoadSucceeded(l) ==
    /\ l \in loads
    /\ loads' = loads \ {l}
    /\ geometry' = Geometry(l.blob)
    /\ previewError' = Null
    /\ currentOutcome' = IF IsCurrentLoad(l) THEN "ok" ELSE currentOutcome
    /\ UNCHANGED <<previewBlob, loadsStarted>>
    /\ UNCHANGED <<appVars, promptVars, uploadVars, downloadVars>>

\* loader.load onError: setError('Failed to load 3D model')
LoadFailed(l) ==
    /\ l \in loads
    /\ loads' = loads \ {l}
    /\ previewError' = "Failed to load 3D model"
    /\ currentOutcome' = IF IsCurrentLoad(l) THEN "failed" ELSE currentOutcome
    /\ UNCHANGED <<previewBlob, geometry, loadsStarted>>
    /\ UNCHANGED <<appVars, promptVars, uploadVars, downloadVars>>

NextPreview ==
    \/ \E b \in Blobs \cup {Null} : SetPreviewBlob(b)
    \/ \E l \in loads : LoadSucceeded(l)
    \/ \E l \in loads : LoadFailed(l)

\* ------------------------------------------------------------------ Init
Init ==
    /\ state = initialState
    /\ inputMode = "image"
    /\ promptsRef = Null
    /\ tasks = [t \in TaskIds |-> Idle]
    /\ inflight = {getPromptsRequest(MountOwner)}
    /\ log = [t \in TaskIds |-> <<>>]
    /\ lastMoldBlob = Null
    /\ freshReset = FALSE
    /\ settings = DEFAULT_MOLD_SETTINGS
    /\ hasChanges = FALSE
    /\ prompt = <<>>
    /\ promptDisabled = FALSE
    /\ submitDisabled = TRUE
    /\ lastSubmit = NoSubmit
    /\ uploadDisabled = FALSE
    /\ isDragging = FALSE
    /\ reads = {}
    /\ offered = {}
    /\ onImageSelectCalls = {}
    /\ stlBlobProp = Null
    /\ downloadDisabled = FALSE
    /\ downloadButtonDisabled = TRUE
    /\ now = 0
    /\ urlsCreated = 0
    /\ liveURLs = {}
    /\ lastDownload = NoDownload
    /\ previewBlob = Null
    /\ geometry = Null
    /\ previewError = Null
    /\ loads = {}
    /\ loadsStarted = 0
    /\ currentOutcome = "none"

Next ==
    \/ MountPromptsLoaded
    \/ MountPromptsFailed
    \/ \E m \in {"image", "prompt"} : SetInputMode(m)
    \/ \E t \in TaskIds, img \in UserImages : SelectImage(t, img)
    \/ \E t \in TaskIds : ReaderLoaded(t)
    \/ \E t \in TaskIds : ReaderFailed(t)
    \/ \E t \in TaskIds, p \in UserPrompts : SubmitPrompt(t, p)
    \/ Reset
    \/ \E c \in SettingChoices : updateSetting(c[1], c[2])
    \/ \E t \in TaskIds : applyChanges(t)
    \/ \E t \in TaskIds : TaskPromptsLoaded(t)
    \/ \E t \in TaskIds : TaskPromptsFailed(t)
    \/ \E t \in TaskIds, img \in ProcessedImages : ExtractResolved(t, img)
    \/ \E t \in TaskIds, img \in ProcessedImages : GenerateResolved(t, img)
    \/ \E t \in TaskIds, d \in DepthMaps : DepthResolved(t, d)
    \/ \E t \in TaskIds, b \in Blobs : MoldResolved(t, b)
    \/ \E t \in TaskIds, f \in Failures : RequestFailed(t, f)

Spec == Init /\ [][Next]_vars

SpecPrompt == Init /\ [][NextPrompt]_vars

SpecUpload == Init /\ [][NextUpload]_vars

SpecDownload == Init /\ [][NextDownload]_vars

SpecPreview == Init /\ [][NextPreview]_vars

\* ================================================================ claims
\* ---------------------------------------------------------------- pipelines
IsPipelineEntry(e) == e.req.ep # "prompts"

\* the pipeline requests task t has issued so far, in order, with their outcomes
PipelineLog(t) == SelectSeq(log[t], IsPipelineEntry)

IsPrefixOf(a, b) == Len(a) <= Len(b) /\ a = SubSeq(b, 1, Len(a))

Endpoints(l) == [k \in 1..Len(l) |-> l[k].req.ep]

\* l is a run of requests made one after the other in the order `order`, each
\* but the last answered successfully, each carrying the previous one's result
InOrderChained(t, l, order, first) ==
    /\ IsPrefixOf(Endpoints(l), order)
    /\ \A k \in 1..(Len(l) - 1) : l[k].status = "ok"
    /\ Len(l) >= 1 => l[1].req.body[first] = tasks[t].input
    /\ Len(l) >= 2 => l[2].req.body.image = l[1].value
    /\ Len(l) >= 3 => l[3].req.body.depth_map = l[2].value
    /\ \A r \in inflight : r.owner = t =>
         /\ log[t] # <<>>
         /\ log[t][Len(log[t])] = Pending(r)

\* C1: processImage issues extract-subject, create-depth-map, generate-mold in
\* that order, each after the previous one succeeded; create-depth-map carries the
\* image extract-subject returned, generate-mold the depth map create-depth-map
\* returned.
C1_ProcessImageRequestsInOrder ==
    \A t \in TaskIds : tasks[t].kind = "image" =>
        InOrderChained(t, PipelineLog(t),
            <<"extract-subject", "create-depth-map", "generate-mold">>, "image")

\* an image run has sent its generate-mold request while another run has put a
\* different depth map in the state
C1_Witness ==
    \E t \in TaskIds :
        /\ tasks[t].kind = "image"
        /\ Len(PipelineLog(t)) = 3
        /\ PipelineLog(t)[2].value # state.depthMap

\* C2: processPrompt issues generate-image, create-depth-map, generate-mold in
\* that order, each after the previous one succeeded, each carrying the previous
\* result; extract-subject is never called on the prompt path.
C2_ProcessPromptRequestsInOrder ==
    \A t \in TaskIds : tasks[t].kind = "prompt" =>
        /\ InOrderChained(t, PipelineLog(t),
              <<"generate-image", "create-depth-map", "generate-mold">>, "prompt")
        /\ \A k \in 1..Len(log[t]) : log[t][k].req.ep # "extract-subject"

\* a prompt run has sent its generate-mold request while another run has put a
\* different image in the state
C2_Witness ==
    \E t \in TaskIds :
        /\ tasks[t].kind = "prompt"
        /\ Len(PipelineLog(t)) = 3
        /\ PipelineLog(t)[1].value # state.processedImage

\* C3 as stated: at most one request issued by useGeneration is in flight at any
\* moment.
C3_AtMostOneRequestInFlight ==
    Cardinality(inflight) <= 1

\* C3 as amended: every single call of processImage, processPrompt or
\* regenerateMold, and the mount effect, has at most one request of its own in
\* flight at any moment.
C3_AtMostOneRequestPerCall ==
    \A o \in TaskIds \cup {MountOwner} :
        Cardinality({r \in inflight : r.owner = o}) <= 1

\* two calls have a generate-mold request in flight at the same time
C3_Witness ==
    \E r1, r2 \in inflight :
        /\ r1.owner # r2.owner
        /\ r1.ep = "generate-mold"
        /\ r2.ep = "generate-mold"

\* the step changes C4 lists
WizardMoves ==
    {<<"input", "processing">>, <<"processing", "customize">>,
     <<"processing", "error">>, <<"customize", "error">>,
     <<"customize", "input">>, <<"error", "input">>}

\* C4: step only moves along the wizard (input -> processing -> customize or
\* error, customize -> error, customize / error -> input); in particular never
\* from input or from error directly to customize.
C4_StepMovesAlongWizard ==
    [][state'.step # state.step => <<state.step, state'.step>> \in WizardMoves]_vars

\* C5: whenever step = 'customize', stlBlob is non-null and is the blob returned by
\* the most recently completed successful generate-mold request.
C5_CustomizeShowsLatestBlob ==
    state.step = "customize" =>
        /\ state.stlBlob # Null
        /\ state.stlBlob = lastMoldBlob

\* customize after a regeneration replaced the first blob, another one pending
C5_Witness ==
    /\ state.step = "customize"
    /\ state.stlBlob = "stl2"
    /\ hasChanges
    /\ \E r \in inflight : r.ep = "generate-mold" /\ r.body.wall_thickness = 10

MoldRequestKeys ==
    {"wall_thickness", "max_width", "max_height", "max_depth",
     "include_registration_marks", "include_pouring_channel"}

\* C6: every generate-mold request carries defined values for wall_thickness,
\* max_width, max_height, max_depth, include_registration_marks and
\* include_pouring_channel.
C6_MoldRequestCarriesAllSettings ==
    \A r \in inflight : r.ep = "generate-mold" =>
        MoldRequestKeys \subseteq DOMAIN r.body

\* C7: whenever step is 'customize' and MoldControls applies changed settings,
\* exactly one generate-mold request is issued, carrying the state's current depth
\* map and the newly selected settings, and no other request.
C7_AppliedSettingsIssueOneMoldRequest ==
    [][(/\ state.step = "customize"
        /\ state'.step = "customize"
        /\ hasChanges
        /\ ~hasChanges')
       => \E r \in inflight' \ inflight :
            /\ inflight' = inflight \cup {r}
            /\ r.ep = "generate-mold"
            /\ r.body.depth_map = state.depthMap
            /\ r.body.wall_thickness = settings.wallThickness
            /\ r.body.max_width = settings.maxWidth
            /\ r.body.max_height = settings.maxHeight
            /\ r.body.max_depth = settings.maxDepth]_vars

\* ---------------------------------------------------------------- components
AllWhitespace(str) == \A i \in 1..Len(str) : str[i] \in Whitespace

\* arg is text without its leading and trailing whitespace
IsTrimOf(arg, text) ==
    \E i, j \in 1..Len(text) :
        /\ i <= j
        /\ arg = SubSeq(text, i, j)
        /\ text[i] \notin Whitespace
        /\ text[j] \notin Whitespace
        /\ \A k \in 1..Len(text) : (k < i \/ k > j) => text[k] \in Whitespace

\* C8: PromptInput calls onSubmit only on a submission made while the text is
\* non-blank after trimming and the disabled prop is not set, and passes exactly
\* the trimmed text; never an empty or whitespace-only string, never while disabled.
C8_OnSubmitOnlyTrimmedNonBlank ==
    lastSubmit.called =>
        /\ lastSubmit.made
        /\ ~AllWhitespace(lastSubmit.text)
        /\ ~lastSubmit.disabled
        /\ IsTrimOf(lastSubmit.arg, lastSubmit.text)
        /\ ~AllWhitespace(lastSubmit.arg)

\* a submission of padded text called onSubmit with the padding removed
C8_Witness ==
    /\ lastSubmit.called
    /\ lastSubmit.arg # lastSubmit.text
    /\ Len(lastSubmit.arg) > 1

\* C9: the submit button is disabled exactly when the text is empty or
\* whitespace-only, or the disabled prop is set.
C9_ButtonDisabledIffBlankOrDisabled ==
    submitDisabled <=> (AllWhitespace(prompt) \/ promptDisabled)

\* whitespace-only text with the prop unset: the button is disabled
C9_Witness ==
    /\ prompt # <<>>
    /\ AllWhitespace(prompt)
    /\ ~promptDisabled
    /\ submitDisabled

HasImagePrefix(type) ==
    /\ Len(type) >= Len(ImagePrefix)
    /\ SubSeq(type, 1, Len(ImagePrefix)) = ImagePrefix

\* C10: by either route, a file is read and onImageSelect is called only if its
\* MIME type starts with 'image/'; a non-image file causes no read and no callback.
C10_OnlyImageFilesReadOrSelected ==
    \A file \in reads \cup onImageSelectCalls : HasImagePrefix(file.type)

\* an image file reached onImageSelect while a non-image file was turned away
C10_Witness ==
    /\ onImageSelectCalls # {}
    /\ \E file \in offered :
         ~HasImagePrefix(file.type) /\ file \notin reads \cup onImageSelectCalls

\* C11: while the disabled prop is true, no interaction with ImageUpload (click,
\* file-input change, drag-over, drop of an image file) leads to a call of
\* onImageSelect.
C11_NoSelectFromDisabledUpload ==
    \A file \in onImageSelectCalls : ~file.whileDisabled

\* C12: the download button is disabled exactly when stlBlob is null or the
\* disabled prop is set; a call of handleDownload with a null stlBlob creates no
\* object URL and triggers no download; a call with a non-null stlBlob creates
\* exactly one object URL, for that blob, triggers one download of that URL named
\* candle_mold_<timestamp>.stl, and has revoked the URL when it returns.
C12_DownloadButton ==
    /\ downloadButtonDisabled <=> (stlBlobProp = Null \/ downloadDisabled)
    /\ liveURLs = {}
    /\ lastDownload.called =>
         LET effects == lastDownload.effects
             creates == OfOp(effects, "createObjectURL")
             clicks  == OfOp(effects, "click")
             revokes == OfOp(effects, "revokeObjectURL")
         IN  IF lastDownload.blob = Null
             THEN creates = <<>> /\ clicks = <<>>
             ELSE /\ Len(creates) = 1
                  /\ creates[1].blob = lastDownload.blob
                  /\ Len(clicks) = 1
                  /\ clicks[1].href = creates[1].url
                  /\ clicks[1].download =
                         "candle_mold_" \o ToString(lastDownload.at) \o ".stl"
                  /\ Len(revokes) = 1
                  /\ revokes[1].url = creates[1].url
                  /\ effects[Len(effects)].op = "revokeObjectURL"

C12_Witness ==
    /\ lastDownload.called
    /\ lastDownload.blob = "stl2"
    /\ lastDownload.at = 1
    /\ urlsCreated = 2
    /\ stlBlobProp = Null
    /\ downloadButtonDisabled

\* the request a processing message names
NamedEndpoint(message) ==
    CASE message = "Extracting subject..." -> "extract-subject"
      [] message = "Generating image..." -> "generate-image"
      [] message = "Creating depth map..." -> "create-depth-map"
      [] message = "Generating 3D mold..." -> "generate-mold"
      [] OTHER -> Null

\* the backend requests in flight other than fetches of the prompt templates
PipelineRequestsInFlight == {r \in inflight : r.ep # "prompts"}

\* C13 as stated: whenever step = 'processing', currentProcessingStep and
\* currentPromptInfo are non-null and currentProcessingStep names the request
\* currently in flight (there is one, and it is the named one).
C13_StepNamesTheRequestInFlight ==
    state.step = "processing" =>
        /\ state.currentProcessingStep # Null
        /\ state.currentPromptInfo # Null
        /\ Cardinality(PipelineRequestsInFlight) = 1
        /\ \A r \in PipelineRequestsInFlight :
               r.ep = NamedEndpoint(state.currentProcessingStep)

\* C13 (amended): whenever step = 'processing', currentProcessingStep and
\* currentPromptInfo are non-null and currentProcessingStep names a request of a
\* processImage / processPrompt call that is in flight.
C13_StepNamesARequestInFlight ==
    state.step = "processing" =>
        /\ state.currentProcessingStep # Null
        /\ state.currentPromptInfo # Null
        /\ \E r \in PipelineRequestsInFlight :
               /\ r.ep = NamedEndpoint(state.currentProcessingStep)
               /\ r.owner \in TaskIds
               /\ tasks[r.owner].kind \in {"image", "prompt"}

C13_Witness ==
    /\ state.step = "processing"
    /\ state.currentProcessingStep = "Creating depth map..."
    /\ Cardinality(PipelineRequestsInFlight) = 2
    /\ \E r \in inflight : r.ep = "extract-subject"

\* the fields a run fills in
ResultFields == {"originalImage", "processedImage", "depthMap", "stlBlob"}

\* C14: RESET returns the state to exactly the initial state from any state, and
\* after a reset none of originalImage, processedImage, depthMap, stlBlob becomes
\* non-null again until the user submits a new image or prompt.
C14_ResetIsFinalUntilNextSubmit ==
    [][ /\ Reset => state' = initialState
        /\ (freshReset /\ freshReset') =>
               \A k \in ResultFields : state[k] = Null => state'[k] = Null ]_vars

\* C15: for any sequence of stlBlob prop changes and load completions, in any
\* order, once every started load has finished MoldPreview displays the geometry
\* parsed from the current stlBlob, shows 'Failed to load 3D model' only if the
\* load of the current stlBlob failed, and shows 'No model loaded' when the
\* current stlBlob is null.
C15_PreviewShowsCurrentBlob ==
    loads = {} =>
        /\ previewBlob = Null => Rendered = "No model loaded"
        /\ currentOutcome = "ok" => Rendered = Geometry(previewBlob)
        /\ Rendered = "Failed to load 3D model" => currentOutcome = "failed"

\* C16: when one of the three pipeline requests of a processImage / processPrompt
\* call fails, that call issues no later request, step becomes 'error',
\* errorMessage becomes the thrown Error's message (or 'An error occurred' when
\* the thrown value is not an Error), currentProcessingStep and
\* currentPromptInfo become null, and processedImage and depthMap are unchanged.
C16_FailedRequestEndsRun ==
    [][ \A t \in TaskIds, f \in Failures :
          (tasks[t].kind \in {"image", "prompt"} /\ RequestFailed(t, f)) =>
              \E r \in {x \in inflight : x.owner = t} :
                  LET thrown == Thrown(r.ep, f)
                  IN  /\ state'.step = "error"
                      /\ state'.errorMessage =
                             IF thrown.isError THEN thrown.message
                             ELSE "An error occurred"
                      /\ state'.currentProcessingStep = Null
                      /\ state'.currentPromptInfo = Null
                      /\ state'.processedImage = state.processedImage
                      /\ state'.depthMap = state.depthMap
                      /\ {x \in inflight' : x.owner = t} = {}
                      /\ tasks'[t] = Idle ]_vars

C16_Witness ==
    /\ state.step = "error"
    /\ state.errorMessage = "Failed to create depth map"
    /\ state.processedImage # Null
    /\ state.depthMap = Null
    /\ state.currentProcessingStep = Null
    /\ \A t \in TaskIds : tasks[t] = Idle

====
